---- MODULE Spec2Model ----
(***************************************************************************)
(* Model of the VAIT homepage deployment glue:                             *)
(*   - the "Build and deploy page" workflow (.github workflow, part_007),  *)
(*     its concurrency group and its five steps;                           *)
(*   - the HomepageStack constructor (infra/lib/homepage-stack.ts), run by *)
(*     the workflow's "Deploy with CDK" step, statement by statement, with *)
(*     the construct tree it builds;                                       *)
(*   - the behaviour of the distribution and of the origin bucket exactly  *)
(*     as that constructor declares them, applied to viewer requests;      *)
(*   - the pull-request workflow and the reusable test-and-lint workflow   *)
(*     it calls (part_007);                                                *)
(*   - the React front end: the components' markup as a function of their  *)
(*     props, and the rendering of the application root (src/index.tsx,    *)
(*     routes/__root.tsx, pages/index-page).                               *)
(***************************************************************************)
EXTENDS Integers, Sequences, FiniteSets, TLC

VARIABLES run, stack, objects, exchange, jobs, root, title, dom, year, renders,
          cloud, app

vars == <<run, stack, objects, exchange, jobs, root, title, dom, year, renders,
          cloud, app>>

\* The state of the deployment side and the state of the pull-request and
\* front-end side; each side's actions leave the other side alone.
deployVars == <<run, stack, objects, exchange>>

frontVars == <<jobs, root, title, dom, year, renders>>

\* The deployed stack that is being deleted, and the CDK app run from the
\* command line.
cdkVars == <<cloud, app>>

(***************************************************************************)
(* Bounds                                                                  *)
(***************************************************************************)
\* Number of workflow runs that are ever triggered.
MaxRuns == 3

\* Calendar years the page's clock may advance.
MaxYearsElapsed == 3

\* Re-renders of the mounted page.
MaxRerenders == 3

\* How many times the CDK command line is invoked.
MaxInvocations == 2

RunIds == 1..MaxRuns

(***************************************************************************)
(* infra/lib/constants.ts, as quoted by docs/infrastructure.md.  A host    *)
(* name is the sequence of its labels, so that the wildcard template       *)
(* `*.${BASE_DOMAIN}` is computed, not assumed.                            *)
(***************************************************************************)
BASE_DOMAIN == <<"vietausit", "com">>

SITE_DOMAIN == <<"home">> \o BASE_DOMAIN

WWW_DOMAIN == <<"www">> \o BASE_DOMAIN

(***************************************************************************)
(* The workflow "Build and deploy page"                                    *)
(***************************************************************************)
\* The workflow is reusable (on: workflow_call): github.workflow and
\* github.ref are those of the calling run.  Names are token sequences so
\* that the group expression is a real concatenation.
Workflows == { <<"Release">> }

Refs == { <<"refs/heads/master">>, <<"refs/heads/dev">> }

\* concurrency.group: ${{ github.workflow }}-${{ github.ref }}
Group(workflow, ref) == workflow \o <<"-">> \o ref

\* (mutant) the job without its "Build project" step
StepsWithoutBuild ==
  << "Checkout code", "Set up project",
     "Setup AWS <-> GitHub OIDC", "Deploy with CDK" >>

\* jobs.build-and-deploy-page.steps, in order
Steps ==
  << "Checkout code", "Set up project", "Build project",
     "Setup AWS <-> GitHub OIDC", "Deploy with CDK" >>

DeployStep == Len(Steps)

NoRun == [status |-> "none", workflow |-> <<>>, ref |-> <<>>, step |-> 0]

GroupOf(r) == Group(run[r].workflow, run[r].ref)

InProgress(r) == run[r].status = "in_progress"

Pending(r) == run[r].status = "pending"

\* (mutant) the group never counts as busy: runs are not serialised
RunningInNever(g) == {}

\* (mutant) cancel-in-progress: the executing run of the group is replaced too
PendingOrRunningIn(g) ==
  { r \in RunIds : (Pending(r) \/ InProgress(r)) /\ GroupOf(r) = g }

\* Runs of the concurrency group g that are executing / waiting.
RunningIn(g) == { r \in RunIds : InProgress(r) /\ GroupOf(r) = g }

PendingIn(g) == { r \in RunIds : Pending(r) /\ GroupOf(r) = g }

(***************************************************************************)
(* HomepageStack.constructor (infra/lib/homepage-stack.ts)                 *)
(*                                                                         *)
(* The frame of one constructor call: its position, the ids of the         *)
(* constructs created so far in the stack's scope, and its local           *)
(* variables.  A local that has not been assigned is Undefined.  A         *)
(* construct refers to another one by that construct's id.                 *)
(***************************************************************************)
Undefined == [id |-> "undefined"]

\* URL paths and object keys are sequences of segments: "/" is <<>>,
\* "/index.html" is <<"index.html">>, the pattern "/*" is <<"*">>.
IndexHtml == <<"index.html">>

\* (mutant) cloudfront.AllowedMethods.ALLOW_ALL
ALLOW_ALL == {"GET", "HEAD", "OPTIONS", "POST", "PUT", "PATCH", "DELETE"}

\* cloudfront.AllowedMethods.ALLOW_GET_HEAD_OPTIONS
ALLOW_GET_HEAD_OPTIONS == {"GET", "HEAD", "OPTIONS"}

\* route53.HostedZone.fromLookup(this, 'VAITHostedZone', { domainName: BASE_DOMAIN })
VAITHostedZone(s) ==
  [id |-> "VAITHostedZone", domainName |-> BASE_DOMAIN]

\* (mutant) the certificate is requested without a region of its own
VAITHomeCertificateNoRegion(s) ==
  [id |-> "VAITHomeCertificate",
   region |-> "",
   domainName |-> <<"*">> \o BASE_DOMAIN,
   subjectAlternativeNames |-> {},
   validation |-> "DNS",
   hostedZone |-> s.zone.id]

\* new acm.DnsValidatedCertificate(this, 'VAITHomeCertificate', {...}): the
\* construct validates by DNS in hostedZone; subjectAlternativeNames is not
\* passed.
VAITHomeCertificate(s) ==
  [id |-> "VAITHomeCertificate",
   region |-> "us-east-1",
   domainName |-> <<"*">> \o BASE_DOMAIN,
   subjectAlternativeNames |-> {},
   validation |-> "DNS",
   hostedZone |-> s.zone.id]

\* (mutant) a bucket whose objects are not deleted with the stack
HomepageSiteBucketKeepingObjects(s) ==
  [id |-> "HomepageSiteBucket",
   bucketName |-> SITE_DOMAIN,
   publicReadAccess |-> FALSE,
   blockPublicAccess |-> "BLOCK_ALL",
   removalPolicy |-> "DESTROY",
   autoDeleteObjects |-> FALSE,
   versioned |-> FALSE]

\* (mutant) a bucket configured for public website hosting
HomepageSiteBucketPublic(s) ==
  [id |-> "HomepageSiteBucket",
   bucketName |-> SITE_DOMAIN,
   publicReadAccess |-> TRUE,
   blockPublicAccess |-> "BLOCK_ACLS",
   removalPolicy |-> "DESTROY",
   autoDeleteObjects |-> TRUE,
   versioned |-> FALSE]

\* new s3.Bucket(this, 'HomepageSiteBucket', {...}); `versioned` is not set
HomepageSiteBucket(s) ==
  [id |-> "HomepageSiteBucket",
   bucketName |-> SITE_DOMAIN,
   publicReadAccess |-> FALSE,
   blockPublicAccess |-> "BLOCK_ALL",
   removalPolicy |-> "DESTROY",
   autoDeleteObjects |-> TRUE,
   versioned |-> FALSE]

\* (mutant) the 403 entry is missing
ErrorResponsesOnly404 ==
  { [httpStatus |-> 404, responseHttpStatus |-> 200, responsePagePath |-> IndexHtml] }

\* errorResponses of the distribution
ErrorResponses ==
  { [httpStatus |-> 403, responseHttpStatus |-> 200, responsePagePath |-> IndexHtml],
    [httpStatus |-> 404, responseHttpStatus |-> 200, responsePagePath |-> IndexHtml] }

\* (mutant) viewerProtocolPolicy: ALLOW_ALL
DefaultBehaviorAllowHttp(s) ==
  [origin |-> [bucket |-> s.siteBucket.id, access |-> "OriginAccessControl"],
   compress |-> TRUE,
   allowedMethods |-> ALLOW_GET_HEAD_OPTIONS,
   viewerProtocolPolicy |-> "ALLOW_ALL"]

\* defaultBehavior of the distribution
DefaultBehavior(s) ==
  [origin |-> [bucket |-> s.siteBucket.id, access |-> "OriginAccessControl"],
   compress |-> TRUE,
   allowedMethods |-> ALLOW_GET_HEAD_OPTIONS,
   viewerProtocolPolicy |-> "REDIRECT_TO_HTTPS"]

\* new cloudfront.Distribution(this, 'HomepageSiteDistribution', {...}); no
\* responseHeadersPolicy is passed, and the removal policy is set afterwards
\* (line 64).
HomepageSiteDistribution(s) ==
  [id |-> "HomepageSiteDistribution",
   defaultRootObject |-> IndexHtml,
   certificate |-> s.certificate.id,
   domainNames |-> {SITE_DOMAIN},
   minimumProtocolVersion |-> "TLS_V1_2_2021",
   defaultBehavior |-> DefaultBehavior(s),
   errorResponses |-> ErrorResponses,
   removalPolicy |-> "default",
   responseHeadersPolicy |-> {}]

\* new route53_targets.CloudFrontTarget(distribution)
CloudFrontTarget(s) == [id |-> "CloudFrontTarget", distribution |-> s.distribution.id]

\* new route53.ARecord(this, 'SiteAliasRecord', { recordName, target, zone })
SiteAliasRecord(s, recordName) ==
  [id |-> "SiteAliasRecord",
   type |-> "A",
   recordName |-> recordName,
   target |-> s.siteDomainTarget.distribution,
   zone |-> s.zone.id]

\* s3_deployment.Source.asset(path.resolve(__dirname, '..', '..', 'dist'))
ClientBundle == [id |-> "asset", path |-> <<"dist">>]

\* new s3_deployment.BucketDeployment(this, 'DeployWithInvalidation', {...})
DeployWithInvalidation(s) ==
  [id |-> "DeployWithInvalidation",
   sources |-> <<s.clientBundle>>,
   destinationBucket |-> s.siteBucket.id,
   distribution |-> s.distribution.id,
   distributionPaths |-> {<<"*">>}]

\* An environment value the app does not fix (`undefined`, or no `env` at all).
Unresolved == "unresolved"

\* props.env as bin/infra.ts passes it in a workflow run, where AWS_ACCOUNT_ID
\* is set from the repository's secrets.
WorkflowEnv == [account |-> "AWS_ACCOUNT_ID", region |-> "ap-southeast-2"]

\* The frame on entry, after super(scope, id, props).
NewStack ==
  [status |-> "running", pc |-> 1, children |-> {}, env |-> WorkflowEnv,
   zone |-> Undefined, certificate |-> Undefined, siteBucket |-> Undefined,
   distribution |-> Undefined, siteDomainTarget |-> [id |-> "undefined", distribution |-> "undefined"],
   records |-> <<>>, clientBundle |-> Undefined, deployment |-> Undefined]

NoStack == [NewStack EXCEPT !.status = "idle"]

\* (mutant) the content sync is declared before the alias records
ProgramSyncBeforeDns == <<18, 24, 30, 37, 39, 64, 65, 84, 87, 67, 68, 73, 78, 93>>

\* The statements of the constructor body, named by their first source line,
\* in the order the body executes them.
Program == <<18, 24, 30, 37, 39, 64, 65, 67, 68, 73, 78, 84, 87, 93>>

\* The id under which a statement creates a construct in the scope `this`
\* ("" when the statement creates none there).
ConstructId(line) ==
  CASE line = 18 -> "VAITHostedZone"
    [] line = 24 -> "VAITHomeCertificate"
    [] line = 30 -> "HomepageSiteBucket"
    [] line = 37 -> "BucketArn"
    [] line = 39 -> "HomepageSiteDistribution"
    [] line = 65 -> "DistributionId"
    [] line \in {68, 73, 78} -> "SiteAliasRecord"
    [] line = 87 -> "DeployWithInvalidation"
    [] line = 93 -> "DistributionDomain"
    [] OTHER -> ""

\* (mutant) the distribution is built without the certificate
EffectNoCertificate(s, line) ==
  CASE line = 18 -> [s EXCEPT !.zone = VAITHostedZone(s)]
    [] line = 24 -> s
    [] line = 30 -> [s EXCEPT !.siteBucket = HomepageSiteBucket(s)]
    [] line = 39 -> [s EXCEPT !.distribution = HomepageSiteDistribution(s)]
    [] line = 64 -> [s EXCEPT !.distribution.removalPolicy = "DESTROY"]
    [] line = 67 -> [s EXCEPT !.siteDomainTarget = CloudFrontTarget(s)]
    [] line = 68 -> [s EXCEPT !.records = Append(@, SiteAliasRecord(s, SITE_DOMAIN))]
    [] OTHER -> s

\* What a statement does to the locals once its construct has been accepted.
Effect(s, line) ==
  CASE line = 18 -> [s EXCEPT !.zone = VAITHostedZone(s)]
    [] line = 24 -> [s EXCEPT !.certificate = VAITHomeCertificate(s)]
    [] line = 30 -> [s EXCEPT !.siteBucket = HomepageSiteBucket(s)]
    [] line = 39 -> [s EXCEPT !.distribution = HomepageSiteDistribution(s)]
    [] line = 64 -> [s EXCEPT !.distribution.removalPolicy = "DESTROY"]
    [] line = 67 -> [s EXCEPT !.siteDomainTarget = CloudFrontTarget(s)]
    [] line = 68 -> [s EXCEPT !.records = Append(@, SiteAliasRecord(s, SITE_DOMAIN))]
    [] line = 73 -> [s EXCEPT !.records = Append(@, SiteAliasRecord(s, BASE_DOMAIN))]
    [] line = 78 -> [s EXCEPT !.records = Append(@, SiteAliasRecord(s, WWW_DOMAIN))]
    [] line = 84 -> [s EXCEPT !.clientBundle = ClientBundle]
    [] line = 87 -> [s EXCEPT !.deployment = DeployWithInvalidation(s)]
    [] OTHER -> s

\* The statements that declare an alias record.
AliasStatements == { line \in {68, 73, 78} : ConstructId(line) = "SiteAliasRecord" }

\* The recordName of the alias record a statement declares, in frame s.
RecordNameAt(s, line) ==
  LET after == Effect(s, line).records IN after[Len(after)].recordName

\* Node.addChild: a second construct with an id already present in the scope
\* makes the Construct constructor throw.  HostedZone.fromLookup throws in a
\* stack whose account or region is not fixed by its env.
Throws(s, line) ==
  \/ ConstructId(line) # "" /\ ConstructId(line) \in s.children
  \/ line = 18 /\ Unresolved \in {s.env.account, s.env.region}

\* One statement of the constructor body.
Execute(s) ==
  LET line == Program[s.pc] IN
    IF Throws(s, line)
      THEN [s EXCEPT !.status = "threw"]
      ELSE [Effect(s, line) EXCEPT
              !.children = IF ConstructId(line) = "" THEN @ ELSE @ \cup {ConstructId(line)},
              !.pc = @ + 1,
              !.status = IF s.pc = Len(Program) THEN "returned" ELSE "running"]

(***************************************************************************)
(* Actions of a workflow run                                               *)
(***************************************************************************)
\* A caller invokes the workflow (on: workflow_call).  Runs are numbered in
\* the order they are created.  With `concurrency.group` and no
\* cancel-in-progress: while a run of the group executes, the new run waits
\* and replaces (cancels) the run of the group that was waiting before it.
Trigger(r, workflow, ref) ==
  /\ run[r].status = "none"
  /\ \A q \in RunIds : q < r => run[q].status # "none"
  /\ LET g == Group(workflow, ref)
         busy == RunningIn(g) # {}
     IN run' = [q \in RunIds |->
                  IF q = r
                    THEN [status |-> IF busy THEN "pending" ELSE "in_progress",
                          workflow |-> workflow, ref |-> ref,
                          step |-> IF busy THEN 0 ELSE 1]
                  ELSE IF q \in PendingIn(g)
                    THEN [run[q] EXCEPT !.status = "cancelled"]
                  ELSE run[q]]
  /\ UNCHANGED <<stack, objects, exchange, frontVars, cdkVars>>

\* The run r has ended with `status`; the run waiting in its group starts.
Finish(r, status) ==
  [q \in RunIds |->
     IF q = r THEN [run[q] EXCEPT !.status = status]
     ELSE IF q \in PendingIn(GroupOf(r))
       THEN [run[q] EXCEPT !.status = "in_progress", !.step = 1]
     ELSE run[q]]

\* One of the steps before "Deploy with CDK" succeeds.  Entering the deploy
\* step runs infra/bin/infra.ts: new HomepageStack(app, 'HomepageStack', ...).
StepSucceeds(r) ==
  /\ InProgress(r)
  /\ run[r].step < DeployStep
  /\ run' = [run EXCEPT ![r].step = @ + 1]
  /\ stack' = IF run[r].step + 1 = DeployStep
                THEN [stack EXCEPT ![r] = NewStack]
                ELSE stack
  /\ UNCHANGED <<objects, exchange, frontVars, cdkVars>>

\* One of the steps before "Deploy with CDK" fails: the job stops there.
StepFails(r) ==
  /\ InProgress(r)
  /\ run[r].step < DeployStep
  /\ run' = Finish(r, "failure")
  /\ UNCHANGED <<stack, objects, exchange, frontVars, cdkVars>>

\* "Deploy with CDK": the constructor executes its next statement.
ConstructorStep(r) ==
  /\ InProgress(r)
  /\ run[r].step = DeployStep
  /\ stack[r].status = "running"
  /\ stack' = [stack EXCEPT ![r] = Execute(stack[r])]
  /\ UNCHANGED <<run, objects, exchange, frontVars, cdkVars>>

\* "Deploy with CDK" ends: the cdk process exits non-zero when the
\* constructor threw, and the step and the run fail.  What the cloud provider
\* does with a synthesized stack is outside the repository; a constructor
\* that returned is taken to end the step successfully.
DeployStepEnds(r) ==
  /\ InProgress(r)
  /\ run[r].step = DeployStep
  /\ stack[r].status \in {"returned", "threw"}
  /\ run' = Finish(r, IF stack[r].status = "returned" THEN "success" ELSE "failure")
  /\ UNCHANGED <<stack, objects, exchange, frontVars, cdkVars>>

(***************************************************************************)
(* The stack as the constructor leaves it                                  *)
(***************************************************************************)
RECURSIVE RunConstructor(_)
\* The frame in which a constructor call that is at frame s ends.
RunConstructor(s) ==
  IF s.status = "running" THEN RunConstructor(Execute(s)) ELSE s

\* What `new HomepageStack(app, 'HomepageStack', props)` declares.
Declared == RunConstructor(NewStack)

(***************************************************************************)
(* Certificate names                                                       *)
(***************************************************************************)
\* The region a certificate is requested in: the construct's own `region`
\* prop, and without one the region of the stack that declares it.
CertificateRegion(c, s) == IF c.region = "" THEN s.env.region ELSE c.region

\* The names a certificate is issued for.
CertificateNames(c) == {c.domainName} \cup c.subjectAlternativeNames

\* A certificate name matches a host name when they are equal, or when the
\* name is a wildcard `*.<rest>` and the host is exactly one label plus <rest>.
NameMatches(name, host) ==
  \/ name = host
  \/ /\ Len(name) > 1
     /\ Head(name) = "*"
     /\ Len(host) = Len(name)
     /\ Tail(host) = Tail(name)

CertificateCovers(c, host) ==
  \E name \in CertificateNames(c) : NameMatches(name, host)

(***************************************************************************)
(* The origin bucket and the distribution, as declared, serving requests   *)
(***************************************************************************)
\* The files of the build output directory `dist`.
DistFiles == { IndexHtml, <<"assets", "index.js">> }

\* The paths viewers ask for: "/", "/index.html", "/assets/index.js" and a
\* client-side route, "/about".
Paths == { <<>>, IndexHtml, <<"assets", "index.js">>, <<"about">> }

Methods == {"GET", "HEAD", "OPTIONS", "POST", "PUT", "PATCH", "DELETE"}

Protocols == {"http", "https"}

NoObject == <<"(none)">>

Anonymous == [type |-> "anonymous", distribution |-> ""]

EveryPrincipal == [type |-> "*", distribution |-> ""]

CloudFrontPrincipal(d) == [type |-> "cloudfront", distribution |-> d.id]

\* The bucket policy the declarations produce: publicReadAccess adds a
\* statement for everyone; S3BucketOrigin.withOriginAccessControl adds one
\* for the CloudFront service, restricted to this distribution (read only).
BucketPolicy(b, d) ==
  (IF b.publicReadAccess
     THEN {[principal |-> EveryPrincipal, action |-> "s3:GetObject"]} ELSE {})
  \cup
  (IF d.defaultBehavior.origin.bucket = b.id
      /\ d.defaultBehavior.origin.access = "OriginAccessControl"
     THEN {[principal |-> CloudFrontPrincipal(d), action |-> "s3:GetObject"]} ELSE {})

\* May `principal` read objects of bucket b?  BLOCK_ALL makes the bucket
\* ignore every statement that grants access to everyone.
MayGetObject(b, d, principal) ==
  \E st \in BucketPolicy(b, d) :
     /\ st.action = "s3:GetObject"
     /\ \/ st.principal = principal
        \/ st.principal = EveryPrincipal /\ b.blockPublicAccess # "BLOCK_ALL"

\* The bucket's answer to a read of `key` by `principal`.  The policy grants
\* s3:GetObject only, so a missing key is answered 403 like a forbidden one.
BucketGet(b, d, objs, principal, key) ==
  IF MayGetObject(b, d, principal) /\ key \in objs
    THEN [status |-> 200, object |-> key]
    ELSE [status |-> 403, object |-> NoObject]

\* The custom error response configured for an origin status, if any.
ErrorResponseFor(d, status) ==
  { e \in d.errorResponses : e.httpStatus = status }

\* The object key a request path names: defaultRootObject for "/".
ObjectKey(d, path) == IF path = <<>> THEN d.defaultRootObject ELSE path

\* The distribution's answer to an allowed request that it forwards to the
\* origin.  When the origin's status has a custom error response, the
\* distribution fetches responsePagePath from the origin and answers with
\* responseHttpStatus; when that page cannot be fetched either, the viewer
\* gets the origin's status.
Forward(d, b, objs, req) ==
  LET origin == BucketGet(b, d, objs, CloudFrontPrincipal(d), ObjectKey(d, req.path))
      custom == ErrorResponseFor(d, origin.status)
  IN IF custom = {}
       THEN [status |-> origin.status, object |-> origin.object,
             forwarded |-> TRUE, origin |-> origin.status]
       ELSE LET e == CHOOSE x \in custom : TRUE
                page == BucketGet(b, d, objs, CloudFrontPrincipal(d), e.responsePagePath)
            IN IF page.status = 200
                 THEN [status |-> e.responseHttpStatus, object |-> page.object,
                       forwarded |-> TRUE, origin |-> origin.status]
                 ELSE [status |-> origin.status, object |-> NoObject,
                       forwarded |-> TRUE, origin |-> origin.status]

\* The distribution's answer to a viewer request: the viewer protocol policy,
\* then the allowed methods, then the origin.
Respond(d, b, objs, req) ==
  LET policy == d.defaultBehavior.viewerProtocolPolicy IN
  IF req.protocol = "http" /\ policy = "REDIRECT_TO_HTTPS"
    THEN [status |-> IF req.method \in {"GET", "HEAD"} THEN 301 ELSE 307,
          object |-> NoObject, forwarded |-> FALSE, origin |-> 0]
  ELSE IF req.protocol = "http" /\ policy = "HTTPS_ONLY"
    THEN [status |-> 403, object |-> NoObject, forwarded |-> FALSE, origin |-> 0]
  ELSE IF req.method \notin d.defaultBehavior.allowedMethods
    THEN [status |-> 403, object |-> NoObject, forwarded |-> FALSE, origin |-> 0]
  ELSE Forward(d, b, objs, req)

\* The response headers the distribution adds to what it serves: those of
\* the behaviour's response headers policy.  The bucket sends none of its own
\* beyond the object's metadata.
WithHeaders(d, response) ==
  [status |-> response.status, object |-> response.object,
   forwarded |-> response.forwarded, origin |-> response.origin,
   headers |-> d.responseHeadersPolicy]

NoExchange ==
  [kind |-> "none",
   request |-> [protocol |-> "", method |-> "", path |-> <<>>],
   response |-> [status |-> 0, object |-> NoObject, forwarded |-> FALSE, origin |-> 0,
                 headers |-> {}]]

\* A viewer sends a request to the distribution.
ViewerRequest(protocol, method, path) ==
  /\ Declared.distribution # Undefined
  /\ LET req == [protocol |-> protocol, method |-> method, path |-> path] IN
       exchange' = [kind |-> "viewer", request |-> req,
                    response |-> WithHeaders(Declared.distribution,
                                   Respond(Declared.distribution, Declared.siteBucket,
                                           objects, req))]
  /\ UNCHANGED <<run, stack, objects, frontVars, cdkVars>>

\* Somebody reads an object from the bucket directly, without credentials.
DirectRequest(key) ==
  /\ Declared.siteBucket # Undefined
  /\ LET got == BucketGet(Declared.siteBucket, Declared.distribution, objects, Anonymous, key) IN
       exchange' = [kind |-> "direct",
                    request |-> [protocol |-> "https", method |-> "GET", path |-> key],
                    response |-> [status |-> got.status, object |-> got.object,
                                  forwarded |-> FALSE, origin |-> got.status,
                                  headers |-> {}]]
  /\ UNCHANGED <<run, stack, objects, frontVars, cdkVars>>

(***************************************************************************)
(* The pull-request workflow "Pull Request Action: Test & Lint" and the    *)
(* reusable workflow "Tests and Lints packages" it calls (part_007).       *)
(* One workflow run, started by a pull request against master.             *)
(***************************************************************************)

\* The jobs of the called workflow test-and-lint.yml.
TestAndLintJobs == {"lint", "test", "typecheck"}

JobNames == TestAndLintJobs \cup {"cdk-diff"}

\* jobs.<job>.steps, by name.
JobSteps(j) ==
  CASE j = "lint"      -> <<"Checkout code", "Set up project", "Run linting">>
    [] j = "test"      -> <<"Checkout code", "Set up project", "Run tests">>
    [] j = "typecheck" -> <<"Checkout code", "Set up project", "Run typecheck">>
    [] j = "cdk-diff"  -> <<"Checkout code", "Set up project", "Build project",
                            "Setup AWS <-> GitHub OIDC", "CDK diff",
                            "Setup cdk-notifier", "Update PR">>

\* The jobs a job of the calling workflow stands for: test-and-lint has no
\* steps of its own, it `uses:` the reusable workflow.
CalledJobs(c) == IF c = "test-and-lint" THEN TestAndLintJobs ELSE {}

\* Variant of CdkDiffNeeds: cdk-diff declared without `needs`.
CdkDiffNeedsNothing == {}

\* jobs.cdk-diff.needs
CdkDiffNeeds == {"test-and-lint"}

QueuedJob == [status |-> "queued", step |-> 0]

Completed(j) == jobs[j].status \in {"success", "failure"}

\* The conclusion of a job that calls a reusable workflow: known once every
\* called job has completed, success only when all of them succeeded.
Conclusion(c) ==
  IF \A j \in CalledJobs(c) : Completed(j)
    THEN IF \A j \in CalledJobs(c) : jobs[j].status = "success"
           THEN "success" ELSE "failure"
    ELSE "pending"

\* cdk-diff has no `if:`, so it runs under the default condition success():
\* every needed job concluded with success.
NeedsSucceeded == \A c \in CdkDiffNeeds : Conclusion(c) = "success"

NeedsFailed == \E c \in CdkDiffNeeds : Conclusion(c) = "failure"

\* A runner picks up one of the called jobs; they need nothing.
JobStarts(j) ==
  /\ j \in TestAndLintJobs
  /\ jobs[j].status = "queued"
  /\ jobs' = [jobs EXCEPT ![j] = [status |-> "in_progress", step |-> 1]]
  /\ UNCHANGED <<deployVars, cdkVars, root, title, dom, year, renders>>

\* The current step of a job exits 0: the next step starts, or the job
\* succeeds after its last step.
JobStepSucceeds(j) ==
  /\ jobs[j].status = "in_progress"
  /\ jobs' = [jobs EXCEPT ![j] =
                IF jobs[j].step < Len(JobSteps(j))
                  THEN [status |-> "in_progress", step |-> jobs[j].step + 1]
                  ELSE [status |-> "success", step |-> jobs[j].step]]
  /\ UNCHANGED <<deployVars, cdkVars, root, title, dom, year, renders>>

\* The current step of a job fails (a lint error, a failing test, a type
\* error, ...): the remaining steps are not run and the job fails.
JobStepFails(j) ==
  /\ jobs[j].status = "in_progress"
  /\ jobs' = [jobs EXCEPT ![j].status = "failure"]
  /\ UNCHANGED <<deployVars, cdkVars, root, title, dom, year, renders>>

\* cdk-diff is picked up once its needs are satisfied.
CdkDiffStarts ==
  /\ jobs["cdk-diff"].status = "queued"
  /\ NeedsSucceeded
  /\ jobs' = [jobs EXCEPT !["cdk-diff"] = [status |-> "in_progress", step |-> 1]]
  /\ UNCHANGED <<deployVars, cdkVars, root, title, dom, year, renders>>

\* A needed job failed: cdk-diff is skipped.
CdkDiffSkipped ==
  /\ jobs["cdk-diff"].status = "queued"
  /\ NeedsFailed
  /\ jobs' = [jobs EXCEPT !["cdk-diff"].status = "skipped"]
  /\ UNCHANGED <<deployVars, cdkVars, root, title, dom, year, renders>>

(***************************************************************************)
(* The front end.  Markup is a tree of nodes: a text node carries a        *)
(* sequence of text chunks (a template literal or adjacent JSX text and    *)
(* expressions come out chunk by chunk, in order); an element carries its  *)
(* attributes as a set of <<name, value>> pairs and its child nodes.       *)
(* Props are records; an omitted prop is a field the record does not have. *)
(***************************************************************************)

Text(chunks) == [tag |-> "#text", attrs |-> {}, text |-> chunks, children |-> <<>>]

Element(tag, attrs, children) ==
  [tag |-> tag, attrs |-> attrs, text |-> <<>>, children |-> children]

\* The value of prop `name`, or the default of the destructuring pattern.
Prop(props, name, default) == IF name \in DOMAIN props THEN props[name] ELSE default

\* Component called without props.
NoProps == <<>>

\* element.getAttribute(name); "" when the attribute is absent.
Attr(e, name) ==
  LET found == { p \in e.attrs : p[1] = name } IN
    IF found = {} THEN "" ELSE (CHOOSE p \in found : TRUE)[2]

\* node.textContent of a list of nodes: all text chunks, in document order.
RECURSIVE TextOf(_, _)
TextOf(nodes, i) ==
  IF i > Len(nodes) THEN <<>>
  ELSE (IF nodes[i].tag = "#text" THEN nodes[i].text ELSE TextOf(nodes[i].children, 1))
         \o TextOf(nodes, i + 1)

TextContent(n) == TextOf(<<n>>, 1)

\* The text of an element's own text nodes (what getByText matches on).
RECURSIVE OwnTextOf(_, _)
OwnTextOf(nodes, i) ==
  IF i > Len(nodes) THEN <<>>
  ELSE (IF nodes[i].tag = "#text" THEN nodes[i].text ELSE <<>>) \o OwnTextOf(nodes, i + 1)

OwnText(e) == OwnTextOf(e.children, 1)

\* The elements of a list of nodes and below, in document order.
RECURSIVE ElementsOf(_, _)
ElementsOf(nodes, i) ==
  IF i > Len(nodes) THEN <<>>
  ELSE (IF nodes[i].tag = "#text" THEN <<>>
        ELSE <<nodes[i]>> \o ElementsOf(nodes[i].children, 1))
         \o ElementsOf(nodes, i + 1)

\* The descendant elements of e (e itself excluded), in document order.
Descendants(e) == ElementsOf(e.children, 1)

\* e.querySelectorAll(tag)
RECURSIVE Select(_, _, _)
Select(elements, tag, i) ==
  IF i > Len(elements) THEN <<>>
  ELSE (IF elements[i].tag = tag THEN <<elements[i]>> ELSE <<>>) \o Select(elements, tag, i + 1)

QuerySelectorAll(e, tag) == Select(Descendants(e), tag, 1)

\* e.hasAttribute('id')
HasId(e) == \E p \in e.attrs : p[1] = "id"

\* a link to a fragment of its own page
IsFragmentLink(e) ==
  e.tag = "a" /\ \E p \in e.attrs : p[1] = "href" /\ p[2][1] = "#"

\* The element and its descendant elements, in document order.
AllElements(e) == <<e>> \o Descendants(e)

\* How many elements of the document `page` have the id `id`.
CountId(page, id) ==
  Cardinality({ i \in 1..Len(AllElements(page)) : Attr(AllElements(page)[i], "id") = id })

\* String.prototype.includes on chunked text: `part` occurs as a run of chunks.
Includes(chunks, part) ==
  \E i \in 1..(Len(chunks) - Len(part) + 1) : SubSeq(chunks, i, i + Len(part) - 1) = part

\* The organisation metadata imported from '@/lib/constants'; the values are
\* build-time constants, kept symbolic.
ORGANISATION ==
  [NAME |-> "ORGANISATION.NAME",
   SHORT_NAME |-> "ORGANISATION.SHORT_NAME",
   ABN |-> "ORGANISATION.ABN",
   ASSOCIATION_NUMBER |-> "ORGANISATION.ASSOCIATION_NUMBER",
   DISCORD_URL |-> "ORGANISATION.DISCORD_URL"]

\* new Date().getFullYear(), as a count of calendar years since the first
\* one considered.
GetFullYear(now) == now

\* Footer of an earlier revision: the association number without "(VIC)".
FooterEarlier(now) ==
  LET currentYear == GetFullYear(now) IN
  Element("footer", {},
    << Element("div", {},
         << Element("span", {}, << Text(<<"ABN: ">>), Text(<<ORGANISATION.ABN>>) >>),
            Element("span", {<<"class", "hidden md:inline">>}, << Text(<<"|">>) >>),
            Element("span", {}, << Text(<<"Association No: ">>),
                                   Text(<<ORGANISATION.ASSOCIATION_NUMBER>>) >>) >>),
       Element("div", {},
         << Text(<<"(c) ">>), Text(<<ToString(currentYear)>>), Text(<<" ">>),
            Text(<<ORGANISATION.NAME>>) >>) >>)

\* Footer(): reads the clock for the copyright year ("(c) " stands for the
\* copyright sign and the space after it).
Footer(now) ==
  LET currentYear == GetFullYear(now) IN
  Element("footer", {},
    << Element("div", {},
         << Element("span", {}, << Text(<<"ABN: ">>), Text(<<ORGANISATION.ABN>>) >>),
            Element("span", {<<"class", "hidden md:inline">>}, << Text(<<"|">>) >>),
            Element("span", {}, << Text(<<"Association No: (VIC) ">>),
                                   Text(<<ORGANISATION.ASSOCIATION_NUMBER>>) >>) >>),
       Element("div", {},
         << Text(<<"(c) ">>), Text(<<ToString(currentYear)>>), Text(<<" ">>),
            Text(<<ORGANISATION.NAME>>) >>) >>)

\* DiscordLogo, an icon without text.
DiscordLogo == Element("svg", {<<"class", "h-5! w-5!">>}, <<>>)

\* JoinCommunityCTAButton({ ctaText = 'Join our Community' })
JoinCommunityCTAButton(props) ==
  LET ctaText == Prop(props, "ctaText", "Join our Community") IN
  Element("section", {},
    << Element("a", { <<"href", <<ORGANISATION.DISCORD_URL>>>>, <<"target", "_blank">>,
                      <<"rel", "noopener noreferrer">>,
                      <<"aria-label", "Join our Community">> },
         << Text(<<ctaText>>), Text(<<" ">>), DiscordLogo >>) >>)

\* Hero({ title, subtitle })
Hero(props) ==
  Element("section", {<<"id", "hero">>},
    << Element("div", {},
         << Element("h1", {}, << Text(<<props.title>>) >>),
            Element("h2", {}, << Text(<<props.subtitle>>) >>),
            JoinCommunityCTAButton(NoProps) >>) >>)

\* SectionWithImage({ sectionId, title, description, imageSrc, imageAlt,
\*                    reverse = false, children })
\* Variant of SectionWithImage: `reverse` is ignored, the text block is always
\* given the first order class.
SectionWithImageTextFirst(props) ==
  Element("section", {<<"id", props.sectionId>>},
    << Element("div", {},
         << Element("div", {<<"class", "md:order-1">>},
              << Element("div", {<<"class", "badge">>},
                   << Text(<<"#", props.sectionId>>) >>),
                 Element("h2", {}, << Text(<<props.title>>) >>),
                 Element("p", {}, << Text(<<props.description>>) >>) >>
              \o Prop(props, "children", <<>>)),
            Element("div", {<<"class", "md:order-2">>},
              << Element("img", { <<"src", props.imageSrc>>, <<"alt", props.imageAlt>> },
                         <<>>) >>) >>) >>)

SectionWithImage(props) ==
  LET reverse == Prop(props, "reverse", FALSE)
      textOrder == IF reverse THEN "md:order-2" ELSE "md:order-1"
      imageOrder == IF reverse THEN "md:order-1" ELSE "md:order-2"
  IN
  Element("section", {<<"id", props.sectionId>>},
    << Element("div", {},
         << Element("div", {<<"class", textOrder>>},
              << Element("div", {<<"class", "badge">>},
                   << Text(<<"#", props.sectionId>>) >>),
                 Element("h2", {}, << Text(<<props.title>>) >>),
                 Element("p", {}, << Text(<<props.description>>) >>) >>
              \o Prop(props, "children", <<>>)),
            Element("div", {<<"class", imageOrder>>},
              << Element("img", { <<"src", props.imageSrc>>, <<"alt", props.imageAlt>> },
                         <<>>) >>) >>) >>)

\* The widths the section is laid out at: below the `md` breakpoint, and at
\* or above it.
Viewports == {"base", "md"}

\* The CSS `order` of a grid item: the utility `md:order-N` sets it to N at
\* the `md` breakpoint and above; without an applicable utility it is 0.
CssOrder(e, viewport) ==
  CASE viewport = "md" /\ Attr(e, "class") = "md:order-1" -> 1
    [] viewport = "md" /\ Attr(e, "class") = "md:order-2" -> 2
    [] OTHER -> 0

\* The place of the i-th child of the grid: items are laid out by ascending
\* `order`, items of equal order in document order.
PlaceOf(grid, i, viewport) ==
  1 + Cardinality({ j \in 1..Len(grid.children) :
        \/ CssOrder(grid.children[j], viewport) < CssOrder(grid.children[i], viewport)
        \/ /\ CssOrder(grid.children[j], viewport) = CssOrder(grid.children[i], viewport)
           /\ j < i })

\* The grid of a rendered section; its first child is the text block, its
\* second the image block.
GridOf(section) == section.children[1]

LOGO_COLOURS == [PRIMARY |-> "#F5DF4D", SECONDARY |-> "#939597", DARK_GRAY |-> "#1C1C1C"]

LogoColour == {"colour", "gray", "dark-gray"}

\* Variant of getLogoColours: the gray logo keeps the primary colour.
getLogoColoursGrayPrimary(colour) ==
  CASE colour = "colour" ->
         [primaryColour |-> LOGO_COLOURS.PRIMARY, secondaryColour |-> LOGO_COLOURS.SECONDARY]
    [] colour = "gray" ->
         [primaryColour |-> LOGO_COLOURS.PRIMARY, secondaryColour |-> LOGO_COLOURS.SECONDARY]
    [] colour = "dark-gray" ->
         [primaryColour |-> LOGO_COLOURS.DARK_GRAY, secondaryColour |-> LOGO_COLOURS.SECONDARY]

getLogoColours(colour) ==
  CASE colour = "colour" ->
         [primaryColour |-> LOGO_COLOURS.PRIMARY, secondaryColour |-> LOGO_COLOURS.SECONDARY]
    [] colour = "gray" ->
         [primaryColour |-> LOGO_COLOURS.SECONDARY, secondaryColour |-> LOGO_COLOURS.SECONDARY]
    [] colour = "dark-gray" ->
         [primaryColour |-> LOGO_COLOURS.DARK_GRAY, secondaryColour |-> LOGO_COLOURS.SECONDARY]

\* The DOM attribute a JSX prop is written to.
DomName(prop) == IF prop = "className" THEN "class" ELSE prop

\* Props given as numbers in the calls considered.
NumericProps == {"width", "height"}

\* The attribute value a prop value is written as: numbers in decimal.
AttrValue(prop, value) == IF prop \in NumericProps THEN ToString(value) ELSE value

\* The attributes written on the svg element before the caller's props.
SvgDefaults ==
  { <<"xmlns", "http://www.w3.org/2000/svg">>, <<"fill", "none">>,
    <<"viewBox", "0 0 428 264">>, <<"aria-label", "VAIT Logo">> }

\* Variant of SvgAttrs: {...props} spread before the fixed attributes.
SvgAttrsPropsFirst(props) ==
  LET given == { <<DomName(n), AttrValue(n, props[n])>> : n \in DOMAIN props } IN
    SvgDefaults \cup { p \in given : \A q \in SvgDefaults : q[1] # p[1] }

\* <svg xmlns=... fill="none" viewBox=... aria-label="VAIT Logo" {...props}>:
\* the spread comes last, so a prop of the same name replaces the fixed one.
SvgAttrs(props) ==
  LET given == { <<DomName(n), AttrValue(n, props[n])>> : n \in DOMAIN props } IN
    { p \in SvgDefaults : \A q \in given : q[1] # p[1] } \cup given

\* LogoIcon(props): three coloured paths, and the clip path in <defs>.
LogoIcon(props) ==
  LET colours == getLogoColours(props.colour) IN
  Element("svg", SvgAttrs(props),
    << Element("title", {}, << Text(<<"VAIT Logo">>) >>),
       Element("g", {<<"clip-path", "url(#a)">>},
         << Element("path", {<<"fill", colours.primaryColour>>}, <<>>),
            Element("path", {<<"fill", colours.secondaryColour>>}, <<>>),
            Element("path", {<<"fill", colours.primaryColour>>}, <<>>) >>),
       Element("defs", {},
         << Element("clipPath", {<<"id", "a">>},
              << Element("path", {<<"fill", "#fff">>}, <<>>) >>) >>) >>)

\* Logo(props) returns <LogoIcon {...props} />.
Logo(props) == LogoIcon(props)

\* NavMenuItem({ title, href }); an href is kept as its chunks, '#' and the
\* fragment.
NavMenuItem(props) ==
  Element("li", {},
    << Element("a", {<<"href", props.href>>}, << Text(<<props.title>>) >>) >>)

\* Variant of NavMenu: the second link names a section the page does not have.
NavMenuStaleLink(props) ==
  Element("nav", {<<"class", Prop(props, "className", "")>>},
    << Element("ul", {},
         << NavMenuItem([title |-> "Knowledge Sharing", href |-> <<"#", "knowledge-sharing">>]),
            NavMenuItem([title |-> "Networking Events", href |-> <<"#", "events">>]),
            NavMenuItem([title |-> "Professional Growth", href |-> <<"#", "professional-growth">>])
         >>) >>)

\* NavMenu({ className, ...props })
NavMenu(props) ==
  Element("nav", {<<"class", Prop(props, "className", "")>>},
    << Element("ul", {},
         << NavMenuItem([title |-> "Knowledge Sharing", href |-> <<"#", "knowledge-sharing">>]),
            NavMenuItem([title |-> "Networking Events", href |-> <<"#", "networking-events">>]),
            NavMenuItem([title |-> "Professional Growth", href |-> <<"#", "professional-growth">>])
         >>) >>)

\* NavBar(): the navigation bar with its desktop menu and its Discord link;
\* the logo, the separator and the closed mobile sheet are left out.
NavBar ==
  Element("nav", {},
    << Element("div", {},
         << Element("div", {},
              << NavMenu([className |-> "hidden md:block"]),
                 Element("a", { <<"href", <<ORGANISATION.DISCORD_URL>>>>,
                                <<"target", "_blank">>,
                                <<"rel", "noopener noreferrer">>,
                                <<"aria-label", "Join our Discord server">> },
                   << DiscordLogo >>) >>) >>) >>)

\* const sections (1-based here: sections[1] is the source's sections[0]).
sections ==
  << [id |-> "hero",
      title |-> "Empowering Vietnamese Australians IT Professionals",
      description |-> "Connect, learn, and grow with Australia's leading Vietnamese IT community"],
     [id |-> "knowledge-sharing",
      title |-> "Share Knowledge, Build Community",
      description |-> "Connect with experienced professionals and emerging talent. Share insights, solve challenges together, and stay current with the latest technologies shaping our industry.",
      imageSrc |-> "/images/knowledge-sharing.jpg",
      imageAlt |-> "People sharing knowledge at a tech event",
      reverse |-> FALSE],
     [id |-> "networking-events",
      title |-> "Connect Beyond Code",
      description |-> "Join regular meetups, workshops, and social events designed to strengthen our community bonds. Build lasting professional relationships and discover new opportunities.",
      imageSrc |-> "/images/connect-beyond-code.jpg",
      imageAlt |-> "Networking event with people talking and connecting",
      reverse |-> TRUE],
     [id |-> "professional-growth",
      title |-> "Advance Your Career",
      description |-> "Access career guidance, skill development opportunities, and industry insights from Vietnamese Australian leaders across the tech sector.",
      imageSrc |-> "/images/advance-career.jpg",
      imageAlt |-> "Professional growth and mentorship opportunities",
      reverse |-> FALSE] >>

\* Variant of HeroProps: the hero fed from the second entry of the list.
HeroPropsSecondEntry == [title |-> sections[2].title, subtitle |-> sections[2].description]

\* <Hero title={sections[0].title} subtitle={sections[0].description} />
HeroProps == [title |-> sections[1].title, subtitle |-> sections[1].description]

\* Variant of SectionProps: the entry's reverse flag is not passed on.
SectionPropsNoReverse(section) ==
  [sectionId |-> section.id, title |-> section.title,
   description |-> section.description,
   imageSrc |-> Prop(section, "imageSrc", ""),
   imageAlt |-> Prop(section, "imageAlt", "")]

\* The props IndexPage gives SectionWithImage for one entry of the list;
\* reverse={undefined} leaves the default in place.
SectionProps(section) ==
  IF "reverse" \in DOMAIN section
    THEN [sectionId |-> section.id, title |-> section.title,
          description |-> section.description,
          imageSrc |-> Prop(section, "imageSrc", ""),
          imageAlt |-> Prop(section, "imageAlt", ""),
          reverse |-> section.reverse]
    ELSE [sectionId |-> section.id, title |-> section.title,
          description |-> section.description,
          imageSrc |-> Prop(section, "imageSrc", ""),
          imageAlt |-> Prop(section, "imageAlt", "")]

\* The markup IndexPage returns.
IndexPage(now) ==
  Element("div", {},
    << NavBar,
       Element("main", {},
         << Hero(HeroProps) >>
         \o [i \in 1..(Len(sections) - 1) |-> SectionWithImage(SectionProps(sections[i + 1]))]
         \o << JoinCommunityCTAButton(NoProps) >>),
       Footer(now) >>)

\* Variant of SetTitle: the effect appends to the title it finds.
SetTitleAppending(current) ==
  current \o <<ORGANISATION.SHORT_NAME, " - ", ORGANISATION.NAME>>

\* The effect IndexPage runs on mount, as the new value of document.title:
\* document.title = `${ORGANISATION.SHORT_NAME} - ${ORGANISATION.NAME}`.
SetTitle(current) == <<ORGANISATION.SHORT_NAME, " - ", ORGANISATION.NAME>>

(***************************************************************************)
(* Rendering the application root (src/index.tsx, routes/__root.tsx) in a  *)
(* browser, in a production or a development build.                        *)
(***************************************************************************)

\* document.title before any effect has run (the page's <title>).
InitialTitle == <<"index.html <title>">>

\* The page's clock, in calendar years elapsed.
Years == 0..MaxYearsElapsed

NoRoot ==
  [prod |-> FALSE, status |-> "idle", devtools |-> "unloaded",
   passes |-> 0, effects |-> 0, rerenders |-> 0]

\* Variant of TanStackRouterDevtools: lazily imported in every build.
TanStackRouterDevtoolsAlwaysLazy(prod) == "lazy"

\* const TanStackRouterDevtools = import.meta.env.PROD ? () => null : lazy(...)
TanStackRouterDevtools(prod) == IF prod THEN "null" ELSE "lazy"

\* What the root route's component renders to once nothing suspends:
\* <Outlet /> (the index page) and <TanStackRouterDevtools />.
RootMarkup(prod, now) ==
  << IndexPage(now) >>
  \o (IF TanStackRouterDevtools(prod) = "lazy"
        THEN << Element("div", {<<"class", "TanStackRouterDevtools">>}, <<>>) >>
        ELSE <<>>)

\* renderRoot(): createRoot(rootElement).render(<StrictMode><App /></StrictMode>).
\* The first render pass reaches <TanStackRouterDevtools />; a lazy component
\* whose module is not loaded starts the import and suspends, and nothing of
\* this pass is committed.
RenderRoot ==
  /\ root.status = "ready"
  /\ IF TanStackRouterDevtools(root.prod) = "lazy" /\ root.devtools # "loaded"
       THEN /\ root' = [root EXCEPT !.status = "suspended", !.devtools = "loading",
                                    !.passes = 1]
            /\ dom' = dom
       ELSE /\ root' = [root EXCEPT !.status = "committed", !.passes = 1]
            /\ dom' = RootMarkup(root.prod, year)
  /\ UNCHANGED <<deployVars, cdkVars, jobs, title, year, renders>>

\* The promise of import('@tanstack/router-devtools') resolves.
ModuleLoads ==
  /\ root.devtools = "loading"
  /\ root' = [root EXCEPT !.devtools = "loaded"]
  /\ UNCHANGED <<deployVars, cdkVars, jobs, title, dom, year, renders>>

\* React renders the suspended tree again once the module is there.
RetryRender ==
  /\ root.status = "suspended"
  /\ root.devtools = "loaded"
  /\ root' = [root EXCEPT !.status = "committed", !.passes = root.passes + 1]
  /\ dom' = RootMarkup(root.prod, year)
  /\ UNCHANGED <<deployVars, cdkVars, jobs, title, year, renders>>

\* After the commit IndexPage's effect runs (useEffect(..., [])).
MountEffect ==
  /\ root.status = "committed"
  /\ title' = SetTitle(title)
  /\ root' = [root EXCEPT !.status = "mounted", !.effects = 1]
  /\ UNCHANGED <<deployVars, cdkVars, jobs, dom, year, renders>>

\* <StrictMode> in a development build: right after mounting, the effects
\* of the tree are run a second time.
StrictRemount ==
  /\ ~root.prod
  /\ root.status = "mounted"
  /\ root.effects = 1
  /\ title' = SetTitle(title)
  /\ root' = [root EXCEPT !.effects = 2]
  /\ UNCHANGED <<deployVars, cdkVars, jobs, dom, year, renders>>

\* The mounted page is rendered again; the dependency list [] keeps the
\* effect from running again.
Rerender ==
  /\ root.status = "mounted"
  /\ root.prod \/ root.effects = 2
  /\ root.rerenders < MaxRerenders
  /\ root' = [root EXCEPT !.rerenders = root.rerenders + 1]
  /\ dom' = RootMarkup(root.prod, year)
  /\ UNCHANGED <<deployVars, cdkVars, jobs, title, year, renders>>

\* New Year.
Tick ==
  /\ year < MaxYearsElapsed
  /\ year' = year + 1
  /\ UNCHANGED <<deployVars, cdkVars, jobs, root, title, dom, renders>>

(***************************************************************************)
(* Rendering single components with given props, as the component tests    *)
(* do; the last two renders are kept.                                      *)
(***************************************************************************)

Components == {"Footer", "Hero", "SectionWithImage", "JoinCommunityCTAButton", "Logo"}

\* The props the components are rendered with.
ComponentProps(c) ==
  CASE c = "Footer" -> { NoProps }
    [] c = "Hero" -> { HeroProps, [title |-> "A", subtitle |-> "B"] }
    [] c = "SectionWithImage" ->
         { SectionProps(sections[i]) : i \in 2..Len(sections) }
         \cup { SectionProps([id |-> "about", title |-> "About", description |-> "Us"]) }
    [] c = "JoinCommunityCTAButton" -> { NoProps, [ctaText |-> "Join our Discord Community"] }
    [] c = "Logo" ->
         { [colour |-> v] : v \in LogoColour }
         \cup { [colour |-> v, className |-> "h-6 w-auto"] : v \in LogoColour }
         \cup { ("data-testid" :> "logo-svg")
                  @@ [colour |-> v, width |-> 123, className |-> "test-class"] :
                v \in LogoColour }
         \cup { ("aria-label" :> "Company logo") @@ [colour |-> v] : v \in LogoColour }

\* Variant of Render: the hero is rendered with a dated footer below it.
RenderHeroDated(c, props, now) ==
  CASE c = "Footer" -> Footer(now)
    [] c = "Hero" -> Element("div", {}, << Hero(props), Footer(now) >>)
    [] c = "SectionWithImage" -> SectionWithImage(props)
    [] c = "JoinCommunityCTAButton" -> JoinCommunityCTAButton(props)
    [] c = "Logo" -> Logo(props)

\* The markup of <c {...props} /> rendered when the clock reads `now`.
Render(c, props, now) ==
  CASE c = "Footer" -> Footer(now)
    [] c = "Hero" -> Hero(props)
    [] c = "SectionWithImage" -> SectionWithImage(props)
    [] c = "JoinCommunityCTAButton" -> JoinCommunityCTAButton(props)
    [] c = "Logo" -> Logo(props)

NoRender == [component |-> "none", props |-> NoProps, now |-> 0, markup |-> Text(<<>>)]

NoRenders == <<NoRender, NoRender>>

\* render(<c {...props} />)
RenderComponent(c, props) ==
  /\ renders' = << renders[2],
                   [component |-> c, props |-> props, now |-> year,
                    markup |-> Render(c, props, year)] >>
  /\ UNCHANGED <<deployVars, cdkVars, jobs, root, title, dom, year>>

(***************************************************************************)
(* Deleting the stack: the resources the constructor declares, created in  *)
(* the account, are deleted by CloudFormation in reverse dependency order. *)
(***************************************************************************)
\* The logical resources of the stack; AutoDeleteObjects is the custom
\* resource the bucket gets with autoDeleteObjects: true.
ResourceIds ==
  { "VAITHomeCertificate", "HomepageSiteBucket", "AutoDeleteObjects",
    "HomepageSiteDistribution", "SiteAliasRecord" }

\* The resources of the declared stack.
DeclaredResources ==
  (Declared.children \cap ResourceIds)
    \cup (IF "HomepageSiteBucket" \in Declared.children /\ Declared.siteBucket.autoDeleteObjects
            THEN {"AutoDeleteObjects"} ELSE {})

\* The resources a resource refers to, which therefore outlive it on deletion.
DependsOn(id) ==
  CASE id = "HomepageSiteDistribution" ->
         {Declared.distribution.defaultBehavior.origin.bucket, Declared.distribution.certificate}
    [] id = "SiteAliasRecord" -> {Declared.siteDomainTarget.distribution}
    [] id = "AutoDeleteObjects" -> {Declared.siteBucket.id}
    [] OTHER -> {}

\* The removal policy of a resource: the bucket's from its props, the
\* distribution's from applyRemovalPolicy; the others are deleted.
RemovalPolicyOf(id) ==
  CASE id = "HomepageSiteBucket" -> Declared.siteBucket.removalPolicy
    [] id = "HomepageSiteDistribution" -> Declared.distribution.removalPolicy
    [] OTHER -> "DESTROY"

NoCloud ==
  [status |-> "none", resources |-> [id \in ResourceIds |-> "none"], emptied |-> {}]

\* The stack created in the account.
CreatedCloud ==
  [status |-> "CREATE_COMPLETE",
   resources |-> [id \in ResourceIds |->
                    IF id \in DeclaredResources THEN "CREATE_COMPLETE" ELSE "none"],
   emptied |-> {}]

\* A resource that is no longer in the way of deleting what it depends on.
Gone(id) == cloud.resources[id] \in {"none", "DELETE_COMPLETE", "DELETE_SKIPPED"}

\* A resource that still exists in the account.
Remains(id) == cloud.resources[id] \notin {"none", "DELETE_COMPLETE"}

\* cdk destroy / deleting the CloudFormation stack.
DeleteStack ==
  /\ cloud.status = "CREATE_COMPLETE"
  /\ cloud' = [cloud EXCEPT !.status = "DELETE_IN_PROGRESS"]
  /\ UNCHANGED <<deployVars, frontVars, app>>

\* CloudFormation turns to a resource once everything that depends on it is
\* out of the way; a resource with the removal policy RETAIN is left in the
\* account.
DeleteStarts(id) ==
  /\ cloud.status = "DELETE_IN_PROGRESS"
  /\ cloud.resources[id] = "CREATE_COMPLETE"
  /\ \A d \in ResourceIds : id \in DependsOn(d) => Gone(d)
  /\ cloud' = [cloud EXCEPT !.resources[id] =
                 IF RemovalPolicyOf(id) = "RETAIN" THEN "DELETE_SKIPPED"
                                                  ELSE "DELETE_IN_PROGRESS"]
  /\ UNCHANGED <<deployVars, frontVars, app>>

\* The handler of the AutoDeleteObjects resource deletes one object of the
\* bucket.
AutoDeleteObject(key) ==
  /\ cloud.resources["AutoDeleteObjects"] = "DELETE_IN_PROGRESS"
  /\ key \in objects
  /\ objects' = objects \ {key}
  /\ cloud' = [cloud EXCEPT !.emptied = @ \cup {key}]
  /\ UNCHANGED <<run, stack, exchange, frontVars, app>>

\* The deletion of a resource ends: the handler of AutoDeleteObjects returns
\* when the bucket is empty; S3 refuses to delete a bucket that holds objects,
\* which fails the stack's deletion.
DeleteEnds(id) ==
  /\ cloud.status = "DELETE_IN_PROGRESS"
  /\ cloud.resources[id] = "DELETE_IN_PROGRESS"
  /\ id = "AutoDeleteObjects" => objects = {}
  /\ cloud' = IF id = "HomepageSiteBucket" /\ objects # {}
                THEN [cloud EXCEPT !.resources[id] = "DELETE_FAILED",
                                   !.status = "DELETE_FAILED"]
                ELSE [cloud EXCEPT !.resources[id] = "DELETE_COMPLETE"]
  /\ UNCHANGED <<deployVars, frontVars, app>>

\* Every resource has been dealt with.
StackDeleteEnds ==
  /\ cloud.status = "DELETE_IN_PROGRESS"
  /\ \A id \in ResourceIds : Gone(id)
  /\ cloud' = [cloud EXCEPT !.status = "DELETE_COMPLETE"]
  /\ UNCHANGED <<deployVars, frontVars, app>>

(***************************************************************************)
(* Running the CDK app (bin/infra.ts) from the command line: the app's     *)
(* statements construct its stacks, the stacks are synthesized and then    *)
(* deployed one at a time, a stack after the stacks it depends on.         *)
(***************************************************************************)
\* The revisions of bin/infra.ts: 1 passes env with region ap-southeast-2,
\* 2 passes no env, 3 adds the certificate stack in us-east-1.
AppRevisions == {1, 2, 3}

StackIds == {"HomepageCertStack", "HomepageStack"}

\* process.env.AWS_ACCOUNT_ID, set or not in the shell that runs the app
AccountOf(accountSet) == IF accountSet THEN "AWS_ACCOUNT_ID" ELSE Unresolved

\* props.env a revision of the app passes to a stack.
StackEnv(revision, id, accountSet) ==
  CASE revision = 1 -> [account |-> AccountOf(accountSet), region |-> "ap-southeast-2"]
    [] revision = 2 -> [account |-> Unresolved, region |-> Unresolved]
    [] revision = 3 /\ id = "HomepageCertStack" ->
         [account |-> AccountOf(accountSet), region |-> "us-east-1"]
    [] revision = 3 /\ id = "HomepageStack" ->
         [account |-> AccountOf(accountSet), region |-> "ap-southeast-2"]

\* (mutant) revision 3 without its addDependency statement
AppProgramNoDependency(revision) ==
  CASE revision = 1 -> <<6>>
    [] revision = 2 -> <<18>>
    [] revision = 3 -> <<37, 45>>

\* The statements of a revision of the app after `new cdk.App()`, named by
\* their first source line, in the order they execute.
AppProgram(revision) ==
  CASE revision = 1 -> <<6>>
    [] revision = 2 -> <<18>>
    [] revision = 3 -> <<37, 45, 52>>

\* The stack a `new ...Stack(app, id, props)` statement constructs.
StackAt(revision, line) ==
  IF revision = 3 /\ line = 37 THEN "HomepageCertStack" ELSE "HomepageStack"

NoApp ==
  [status |-> "none", revision |-> 0, accountSet |-> FALSE, invocation |-> 0, pc |-> 0,
   homepage |-> NoStack, stacks |-> {}, dependencies |-> {},
   deploy |-> [id \in StackIds |-> "none"]]

\* The statement the app is at (0 past the last one).
AppLine ==
  IF app.pc \in 1..Len(AppProgram(app.revision)) THEN AppProgram(app.revision)[app.pc] ELSE 0

\* `cdk deploy`: the command line starts the app.
CdkInvoke ==
  /\ app.status = "idle"
  /\ app.invocation < MaxInvocations
  /\ app' = [app EXCEPT !.status = "running", !.invocation = @ + 1, !.pc = 1,
                        !.homepage = NoStack, !.stacks = {}, !.dependencies = {},
                        !.deploy = [id \in StackIds |-> "none"]]
  /\ UNCHANGED <<deployVars, frontVars, cloud>>

\* new HomepageStack(app, 'HomepageStack', props) in revisions 1 and 2: the
\* constructor of lib/homepage-stack.ts is entered with the revision's env.
NewHomepageStack ==
  /\ app.status = "running"
  /\ app.revision \in {1, 2}
  /\ AppLine # 0
  /\ app.homepage.status = "idle"
  /\ app' = [app EXCEPT !.homepage =
               [NewStack EXCEPT !.env = StackEnv(app.revision, "HomepageStack", app.accountSet)]]
  /\ UNCHANGED <<deployVars, frontVars, cloud>>

\* One statement of the HomepageStack constructor; a throw ends the app, a
\* return adds the stack to the app.
HomepageConstructorStep ==
  /\ app.status = "running"
  /\ app.homepage.status = "running"
  /\ LET s == Execute(app.homepage) IN
       app' = [app EXCEPT !.homepage = s,
                          !.status = IF s.status = "threw" THEN "threw" ELSE @,
                          !.stacks = IF s.status = "returned" THEN @ \cup {"HomepageStack"} ELSE @,
                          !.pc = IF s.status = "returned" THEN @ + 1 ELSE @]
  /\ UNCHANGED <<deployVars, frontVars, cloud>>

\* new CertStack(...) and new HomepageStack(...) in revision 3: the
\* constructor returns, or throws and ends the app.
NewStackOfRevision3(outcome) ==
  /\ app.status = "running"
  /\ app.revision = 3
  /\ AppLine \in {37, 45}
  /\ app' = IF outcome = "returned"
              THEN [app EXCEPT !.stacks = @ \cup {StackAt(app.revision, AppLine)},
                               !.pc = @ + 1]
              ELSE [app EXCEPT !.status = "threw"]
  /\ UNCHANGED <<deployVars, frontVars, cloud>>

\* homepageStack.addDependency(certStack)
AddDependency ==
  /\ app.status = "running"
  /\ app.revision = 3
  /\ AppLine = 52
  /\ app' = [app EXCEPT !.dependencies = @ \cup {<<"HomepageStack", "HomepageCertStack">>},
                        !.pc = @ + 1]
  /\ UNCHANGED <<deployVars, frontVars, cloud>>

\* The app's last statement has run: its stacks are synthesized.
Synthesize ==
  /\ app.status = "running"
  /\ app.homepage.status # "running"
  /\ AppLine = 0
  /\ app' = [app EXCEPT !.status = "synthesized"]
  /\ UNCHANGED <<deployVars, frontVars, cloud>>

\* The command line starts deploying a stack: one stack at a time, none after
\* a failure, and a stack only when every stack it depends on is deployed.
DeployStarts(id) ==
  /\ app.status = "synthesized"
  /\ id \in app.stacks
  /\ app.deploy[id] = "none"
  /\ \A other \in StackIds : app.deploy[other] \notin {"deploying", "failed"}
  /\ \A d \in StackIds : <<id, d>> \in app.dependencies => app.deploy[d] = "deployed"
  /\ app' = [app EXCEPT !.deploy[id] = "deploying"]
  /\ UNCHANGED <<deployVars, frontVars, cloud>>

DeploySucceeds(id) ==
  /\ app.status = "synthesized"
  /\ app.deploy[id] = "deploying"
  /\ app' = [app EXCEPT !.deploy[id] = "deployed"]
  /\ UNCHANGED <<deployVars, frontVars, cloud>>

\* A failed stack ends the command.
DeployFails(id) ==
  /\ app.status = "synthesized"
  /\ app.deploy[id] = "deploying"
  /\ app' = [app EXCEPT !.deploy[id] = "failed", !.status = "failed"]
  /\ UNCHANGED <<deployVars, frontVars, cloud>>

\* The command ends: after a throw, after a failed stack, or with every stack
\* of the app deployed.
CdkExits ==
  /\ \/ app.status \in {"threw", "failed"}
     \/ app.status = "synthesized" /\ \A id \in app.stacks : app.deploy[id] = "deployed"
  /\ app' = [app EXCEPT !.status = "idle"]
  /\ UNCHANGED <<deployVars, frontVars, cloud>>

\* No stack in the account, no app run.
CdkIdle == cloud = NoCloud /\ app = NoApp

NoJobs == [j \in JobNames |-> [status |-> "none", step |-> 0]]

\* No pull request.
PRIdle == jobs = NoJobs

\* No page loaded.
PageIdle ==
  /\ root = NoRoot
  /\ title = InitialTitle
  /\ dom = <<>>

\* No component rendered.
ComponentsIdle == renders = NoRenders

\* No deployment run, nothing in the bucket, no request.
DeployIdle ==
  /\ run = [r \in RunIds |-> NoRun]
  /\ stack = [r \in RunIds |-> NoStack]
  /\ objects = {}
  /\ exchange = NoExchange
  /\ CdkIdle

Init ==
  /\ run = [r \in RunIds |-> NoRun]
  /\ stack = [r \in RunIds |-> NoStack]
  /\ objects = {}
  /\ exchange = NoExchange
  /\ CdkIdle
  /\ PRIdle /\ PageIdle /\ year = 0 /\ ComponentsIdle

Next ==
  \/ \E r \in RunIds, w \in Workflows, ref \in Refs : Trigger(r, w, ref)
  \/ \E r \in RunIds : StepSucceeds(r)
  \/ \E r \in RunIds : StepFails(r)
  \/ \E r \in RunIds : ConstructorStep(r)
  \/ \E r \in RunIds : DeployStepEnds(r)

Spec == Init /\ [][Next]_vars

\* The declared bucket and distribution in front of viewers; the bucket holds
\* any part of the build output (none before the first content sync).
ViewerInit ==
  /\ run = [r \in RunIds |-> NoRun]
  /\ stack = [r \in RunIds |-> NoStack]
  /\ objects \in SUBSET DistFiles
  /\ exchange = NoExchange
  /\ CdkIdle
  /\ PRIdle /\ PageIdle /\ year = 0 /\ ComponentsIdle

ViewerNext ==
  \/ \E protocol \in Protocols, method \in Methods, path \in Paths :
        ViewerRequest(protocol, method, path)
  \/ \E key \in DistFiles : DirectRequest(key)

SpecViewer == ViewerInit /\ [][ViewerNext]_vars

\* A pull request against master has been opened: its jobs are queued.
PRInit ==
  /\ DeployIdle
  /\ jobs = [j \in JobNames |-> QueuedJob]
  /\ PageIdle /\ year = 0 /\ ComponentsIdle

PRNext ==
  \/ \E j \in TestAndLintJobs : JobStarts(j)
  \/ \E j \in JobNames : JobStepSucceeds(j)
  \/ \E j \in JobNames : JobStepFails(j)
  \/ CdkDiffStarts
  \/ CdkDiffSkipped

SpecPR == PRInit /\ [][PRNext]_vars

\* The bundle's entry module has been loaded by a browser, from a production
\* or from a development build, and is about to call renderRoot().
AppInit ==
  /\ DeployIdle
  /\ PRIdle
  /\ root \in { [NoRoot EXCEPT !.prod = p, !.status = "ready"] : p \in BOOLEAN }
  /\ title = InitialTitle
  /\ dom = <<>>
  /\ year = 0
  /\ ComponentsIdle

AppNext ==
  \/ RenderRoot
  \/ ModuleLoads
  \/ RetryRender
  \/ MountEffect
  \/ StrictRemount
  \/ Rerender
  \/ Tick

SpecApp == AppInit /\ [][AppNext]_vars

\* Components rendered one at a time while the clock advances.
ComponentsInit ==
  /\ DeployIdle
  /\ PRIdle /\ PageIdle /\ year = 0 /\ ComponentsIdle

ComponentsNext ==
  \/ \E c \in Components : \E props \in ComponentProps(c) : RenderComponent(c, props)
  \/ Tick

SpecComponents == ComponentsInit /\ [][ComponentsNext]_vars

\* The declared stack exists in the account, its bucket holding any part of
\* the build output, and is about to be deleted.
DeleteInit ==
  /\ run = [r \in RunIds |-> NoRun]
  /\ stack = [r \in RunIds |-> NoStack]
  /\ objects \in SUBSET DistFiles
  /\ exchange = NoExchange
  /\ cloud = CreatedCloud
  /\ app = NoApp
  /\ PRIdle /\ PageIdle /\ year = 0 /\ ComponentsIdle

DeleteNext ==
  \/ DeleteStack
  \/ \E id \in ResourceIds : DeleteStarts(id)
  \/ \E key \in DistFiles : AutoDeleteObject(key)
  \/ \E id \in ResourceIds : DeleteEnds(id)
  \/ StackDeleteEnds

\* CloudFormation works on a deletion until it has completed or failed.
SpecDelete == DeleteInit /\ [][DeleteNext]_vars /\ WF_vars(DeleteNext)

\* A shell is about to run `cdk deploy` on one revision of the app, with or
\* without AWS_ACCOUNT_ID in its environment.
CdkInit ==
  /\ run = [r \in RunIds |-> NoRun]
  /\ stack = [r \in RunIds |-> NoStack]
  /\ objects = {}
  /\ exchange = NoExchange
  /\ cloud = NoCloud
  /\ app \in { [NoApp EXCEPT !.status = "idle", !.revision = v, !.accountSet = a] :
                 v \in AppRevisions, a \in BOOLEAN }
  /\ PRIdle /\ PageIdle /\ year = 0 /\ ComponentsIdle

CdkNext ==
  \/ CdkInvoke
  \/ NewHomepageStack
  \/ HomepageConstructorStep
  \/ \E outcome \in {"returned", "threw"} : NewStackOfRevision3(outcome)
  \/ AddDependency
  \/ Synthesize
  \/ \E id \in StackIds : DeployStarts(id)
  \/ \E id \in StackIds : DeploySucceeds(id)
  \/ \E id \in StackIds : DeployFails(id)
  \/ CdkExits

SpecCdk == CdkInit /\ [][CdkNext]_vars

(***************************************************************************)
(* Claims                                                                  *)
(***************************************************************************)

C2_ReferencedResourcesExist ==
  \A r \in RunIds :
    LET s == stack[r] IN
      /\ s.distribution # Undefined =>
           /\ s.distribution.certificate \in s.children
           /\ s.distribution.certificate = s.certificate.id
      /\ \A i \in 1..Len(s.records) :
           /\ s.records[i].target \in s.children
           /\ s.records[i].target = s.distribution.id

\* C2 witness: an alias record has been declared on a declared distribution.
C2_Witness ==
  \E r \in RunIds :
    /\ "HomepageSiteDistribution" \in stack[r].children
    /\ "SiteAliasRecord" \in stack[r].children

\* C3 (as claimed): every forwarded viewer request whose origin response is
\* 403 or 404 is answered 200 with /index.html, and no viewer receives a 403
\* or 404 for a missing or forbidden object.
C3_ErrorsAlwaysRewritten ==
  (exchange.kind = "viewer" /\ exchange.response.forwarded
     /\ exchange.response.origin \in {403, 404})
  => /\ exchange.response.status = 200
     /\ exchange.response.object = IndexHtml

\* C3 (amended): such a request is answered 200 with /index.html whenever
\* /index.html can be read from the origin bucket; while it cannot, the
\* viewer receives the origin's error status.
C3_ErrorsRewrittenWhenIndexPresent ==
  (exchange.kind = "viewer" /\ exchange.response.forwarded
     /\ exchange.response.origin \in {403, 404})
  => IF IndexHtml \in objects
       THEN exchange.response.status = 200 /\ exchange.response.object = IndexHtml
       ELSE exchange.response.status = exchange.response.origin
              /\ exchange.response.object = NoObject

\* C3 witness: a client-side route, missing at the origin, answered 200 with
\* /index.html.
C3_Witness ==
  /\ exchange.kind = "viewer"
  /\ exchange.request.path = <<"about">>
  /\ exchange.response.origin = 403
  /\ exchange.response.status = 200
  /\ exchange.response.object = IndexHtml

\* C4: a viewer request whose method is not GET, HEAD or OPTIONS is never
\* forwarded to the origin bucket and gets no object.
C4_OnlyGetHeadOptionsForwarded ==
  (exchange.kind = "viewer" /\ exchange.request.method \notin {"GET", "HEAD", "OPTIONS"})
  => ~exchange.response.forwarded /\ exchange.response.object = NoObject

\* C4 witness: a POST over HTTPS for an object the bucket holds, refused by
\* the distribution.
C4_Witness ==
  /\ exchange.kind = "viewer"
  /\ exchange.request.method = "POST"
  /\ exchange.request.protocol = "https"
  /\ ObjectKey(Declared.distribution, exchange.request.path) \in objects
  /\ ~exchange.response.forwarded
  /\ exchange.response.status = 403

\* C5 (as claimed): when the constructor call has ended, the stack holds
\* exactly three alias A records, for home.vietausit.com, vietausit.com and
\* www.vietausit.com, all in the same hosted zone and on the one distribution.
C5_ThreeAliasRecords ==
  \A r \in RunIds :
    LET s == stack[r] IN
      s.status \in {"returned", "threw"} =>
        /\ Len(s.records) = 3
        /\ { s.records[i].recordName : i \in 1..Len(s.records) }
              = {SITE_DOMAIN, BASE_DOMAIN, WWW_DOMAIN}
        /\ \A i \in 1..Len(s.records) :
              /\ s.records[i].type = "A"
              /\ s.records[i].zone = s.zone.id
              /\ s.records[i].target = s.distribution.id

\* C6: the bucket blocks all public access, no principal other than the
\* distribution may read its objects, and a direct anonymous request never
\* obtains an object.
C6_BucketNeverPublic ==
  /\ ~Declared.siteBucket.publicReadAccess
  /\ Declared.siteBucket.blockPublicAccess = "BLOCK_ALL"
  /\ \A p \in {Anonymous, EveryPrincipal, CloudFrontPrincipal(Undefined),
               CloudFrontPrincipal(Declared.distribution)} :
        MayGetObject(Declared.siteBucket, Declared.distribution, p)
          <=> p = CloudFrontPrincipal(Declared.distribution)
  /\ exchange.kind = "direct" =>
        exchange.response.status = 403 /\ exchange.response.object = NoObject

\* C6 witness: a direct anonymous read of an object the bucket holds is
\* refused, while the distribution serves that object.
C6_Witness ==
  /\ exchange.kind = "direct"
  /\ exchange.request.path \in objects
  /\ exchange.response.status = 403
  /\ Respond(Declared.distribution, Declared.siteBucket, objects,
             [protocol |-> "https", method |-> "GET", path |-> exchange.request.path]).object
        = exchange.request.path

\* C7: every viewer request over plain HTTP is answered with a redirect and
\* without content, and whenever a viewer receives content the request was
\* made over HTTPS.
C7_NoContentOverHttp ==
  exchange.kind = "viewer" =>
    /\ exchange.request.protocol = "http" =>
         /\ exchange.response.status \in {301, 307}
         /\ exchange.response.object = NoObject
         /\ ~exchange.response.forwarded
    /\ exchange.response.object # NoObject => exchange.request.protocol = "https"

\* C7 witness: a GET over HTTP for an object the bucket holds is redirected.
C7_Witness ==
  /\ exchange.kind = "viewer"
  /\ exchange.request.protocol = "http"
  /\ exchange.request.method = "GET"
  /\ ObjectKey(Declared.distribution, exchange.request.path) \in objects
  /\ exchange.response.status = 301

\* C8 (as claimed): every deployment - every "Deploy with CDK" step that has
\* ended - has synced the build output `dist` to the origin bucket with an
\* invalidation of all paths of the distribution.
C8_DeploymentSyncsAndInvalidates ==
  \A r \in RunIds :
    (run[r].step = DeployStep /\ run[r].status \in {"success", "failure"}) =>
      LET s == stack[r] IN
        /\ s.deployment # Undefined
        /\ s.deployment.sources = <<ClientBundle>>
        /\ s.deployment.destinationBucket = s.siteBucket.id
        /\ s.deployment.distribution = s.distribution.id
        /\ s.deployment.distributionPaths = {<<"*">>}

\* C9 (as claimed): the requested certificate is DNS-validated against the
\* vietausit.com hosted zone and covers the apex domain as well as its
\* subdomains.
C9_CertificateCoversApexAndWildcard ==
  \A r \in RunIds :
    LET s == stack[r] IN
      s.certificate # Undefined =>
        /\ s.certificate.validation = "DNS"
        /\ s.certificate.hostedZone = s.zone.id
        /\ s.zone.domainName = BASE_DOMAIN
        /\ CertificateCovers(s.certificate, SITE_DOMAIN)
        /\ CertificateCovers(s.certificate, WWW_DOMAIN)
        /\ CertificateCovers(s.certificate, BASE_DOMAIN)

\* C10 (as claimed): at no time are two runs of the workflow executing.
C10_NoTwoRunsExecute ==
  Cardinality({ r \in RunIds : run[r].status = "in_progress" }) <= 1

\* C10 (amended): at no time are two runs of the same concurrency group
\* (same calling workflow and same ref) executing.
C10_SerialisedPerGroup ==
  \A r1, r2 \in RunIds :
    (r1 # r2 /\ run[r1].status = "in_progress" /\ run[r2].status = "in_progress")
      => Group(run[r1].workflow, run[r1].ref) # Group(run[r2].workflow, run[r2].ref)

\* C10 witness: a run waits while another run of its group executes.
C10_Witness ==
  \E r1, r2 \in RunIds :
    /\ run[r1].status = "in_progress"
    /\ run[r2].status = "pending"
    /\ run[r1].workflow = run[r2].workflow
    /\ run[r1].ref = run[r2].ref

\* C11: in the pull-request workflow the cdk-diff job has started only if
\* the lint, test and typecheck jobs have all succeeded, and once any of
\* the three has failed cdk-diff has not started (it is queued or skipped).
C11_CdkDiffOnlyAfterChecks ==
  /\ jobs["cdk-diff"].status \in {"in_progress", "success", "failure"} =>
       \A j \in {"lint", "test", "typecheck"} : jobs[j].status = "success"
  /\ (\E j \in {"lint", "test", "typecheck"} : jobs[j].status = "failure") =>
       /\ jobs["cdk-diff"].status \in {"queued", "skipped"}
       /\ jobs["cdk-diff"].step = 0

\* C11 witness: cdk-diff is running, after the three jobs succeeded.
C11_Witness ==
  /\ jobs["cdk-diff"].status = "in_progress"
  /\ jobs["cdk-diff"].step >= 1
  /\ \A j \in TestAndLintJobs : jobs[j].status = "success"

C13_SinglePassNoSuspension ==
  /\ root.status # "suspended"
  /\ root.passes <= 1

\* C13 (amended): in a production build (import.meta.env.PROD) no component
\* is suspended on a lazily imported module once the application root is
\* rendered, and the render is made in one pass, never retried.
C13_SinglePassInProduction ==
  root.prod =>
    /\ root.status # "suspended"
    /\ root.devtools = "unloaded"
    /\ root.passes <= 1

\* C13 witness: a production build has rendered, committed and mounted the
\* page in one pass.
C13_Witness ==
  /\ root.prod
  /\ root.status = "mounted"
  /\ root.passes = 1
  /\ dom # <<>>

\* C14: the rendered index page always has the hero headline 'Empowering
\* Vietnamese Australians IT Professionals' and the subtitle of the first
\* entry of the sections list, in the h1 and the h2 of the hero section, and
\* so in the page's text content.
C14_HeroHeadlineAndSubtitle ==
  dom # <<>> =>
    LET page == dom[1]
        hero == { e \in { Descendants(page)[i] : i \in 1..Len(Descendants(page)) } :
                    e.tag = "section" /\ Attr(e, "id") = "hero" }
    IN /\ Includes(TextContent(page),
                   <<"Empowering Vietnamese Australians IT Professionals">>)
       /\ Includes(TextContent(page), <<sections[1].description>>)
       /\ \E h \in hero :
            /\ \E n \in 1..Len(QuerySelectorAll(h, "h1")) :
                 OwnText(QuerySelectorAll(h, "h1")[n])
                   = <<"Empowering Vietnamese Australians IT Professionals">>
            /\ \E n \in 1..Len(QuerySelectorAll(h, "h2")) :
                 OwnText(QuerySelectorAll(h, "h2")[n]) = <<sections[1].description>>

\* C14 witness: the index page is on screen.
C14_Witness ==
  /\ root.status \in {"committed", "mounted"}
  /\ dom # <<>>
  /\ dom[1] = IndexPage(year)

\* C15: every rendered index page has, inside its footer, one element whose
\* own text is 'ABN: <ABN>' and one element whose own text is
\* 'Association No: (VIC) <association number>'.
C15_FooterShowsAbnAndAssociationNumber ==
  dom # <<>> =>
    \E n \in 1..Len(QuerySelectorAll(dom[1], "footer")) :
      LET footer == QuerySelectorAll(dom[1], "footer")[n]
          inside == { Descendants(footer)[i] : i \in 1..Len(Descendants(footer)) }
      IN /\ \E e \in inside : OwnText(e) = <<"ABN: ", ORGANISATION.ABN>>
         /\ \E e \in inside :
              OwnText(e) = <<"Association No: (VIC) ", ORGANISATION.ASSOCIATION_NUMBER>>

\* C15 witness: the index page is on screen after a re-render in a later
\* year than the first render.
C15_Witness ==
  /\ dom # <<>>
  /\ root.rerenders > 0
  /\ year > 0
  /\ Len(QuerySelectorAll(dom[1], "footer")) = 1

\* C16: once IndexPage has mounted, document.title is
\* '<ORGANISATION.SHORT_NAME> - <ORGANISATION.NAME>', after every run of the
\* mount effect and every re-render.
C16_TitleAfterMount ==
  root.status = "mounted" =>
    title = <<ORGANISATION.SHORT_NAME, " - ", ORGANISATION.NAME>>

\* C16 witness: the mount effect has run twice and the page has been
\* rendered again.
C16_Witness ==
  /\ root.status = "mounted"
  /\ root.effects = 2
  /\ root.rerenders > 0
  /\ title # InitialTitle

\* C17: for every colour variant the first three paths of the rendered logo
\* are filled, in document order, 'colour': PRIMARY, SECONDARY, PRIMARY;
\* 'gray': SECONDARY, SECONDARY, SECONDARY; 'dark-gray': DARK_GRAY,
\* SECONDARY, DARK_GRAY.
C17_LogoFillsPerVariant ==
  renders[2].component = "Logo" =>
    LET paths == QuerySelectorAll(renders[2].markup, "path")
        fills == [i \in 1..3 |-> Attr(paths[i], "fill")]
        colour == renders[2].props.colour
    IN /\ Len(paths) >= 3
       /\ colour = "colour" => fills = <<"#F5DF4D", "#939597", "#F5DF4D">>
       /\ colour = "gray" => fills = <<"#939597", "#939597", "#939597">>
       /\ colour = "dark-gray" => fills = <<"#1C1C1C", "#939597", "#1C1C1C">>
       /\ fills[1] = fills[3]
       /\ fills[2] = LOGO_COLOURS.SECONDARY

\* C17 witness: the gray logo and the dark-gray logo have been rendered.
C17_Witness ==
  /\ renders[1].component = "Logo" /\ renders[1].props.colour = "gray"
  /\ renders[2].component = "Logo" /\ renders[2].props.colour = "dark-gray"

\* C18 (as claimed): Logo renders an svg element labelled 'VAIT Logo', and
\* every prop the caller passes besides colour is on that element with the
\* caller's value.
C18_LabelledAndPropsPassedThrough ==
  renders[2].component = "Logo" =>
    LET svg == renders[2].markup
        props == renders[2].props
    IN /\ svg.tag = "svg"
       /\ Attr(svg, "aria-label") = "VAIT Logo"
       /\ "width" \in DOMAIN props => Attr(svg, "width") = ToString(props.width)
       /\ "className" \in DOMAIN props => Attr(svg, "class") = props.className
       /\ \A n \in DOMAIN props \ {"colour", "width", "className"} :
            Attr(svg, n) = props[n]

\* C18 (amended): Logo renders an svg element; it is labelled 'VAIT Logo'
\* unless the caller passes an aria-label of its own, which replaces that
\* label; every prop the caller passes besides colour is on that element
\* with the caller's value.
C18_LabelledUnlessOverridden ==
  renders[2].component = "Logo" =>
    LET svg == renders[2].markup
        props == renders[2].props
    IN /\ svg.tag = "svg"
       /\ "aria-label" \notin DOMAIN props => Attr(svg, "aria-label") = "VAIT Logo"
       /\ "width" \in DOMAIN props => Attr(svg, "width") = ToString(props.width)
       /\ "className" \in DOMAIN props => Attr(svg, "class") = props.className
       /\ \A n \in DOMAIN props \ {"colour", "width", "className"} :
            Attr(svg, n) = props[n]

\* C18 witness: the logo rendered with width, className and data-testid, and
\* the logo rendered with an aria-label of the caller.
C18_Witness ==
  /\ renders[1].component = "Logo"
  /\ {"width", "className", "data-testid"} \subseteq DOMAIN renders[1].props
  /\ Attr(renders[1].markup, "aria-label") = "VAIT Logo"
  /\ renders[2].component = "Logo"
  /\ "aria-label" \in DOMAIN renders[2].props
  /\ Attr(renders[2].markup, "aria-label") = renders[2].props["aria-label"]

\* C19 (as claimed): the origin bucket a constructor call declares has
\* versioning enabled.
C19_BucketVersioned ==
  \A r \in RunIds :
    stack[r].siteBucket # Undefined => stack[r].siteBucket.versioned

\* C20 (as claimed): every response the distribution serves to a viewer
\* carries Strict-Transport-Security, Content-Security-Policy,
\* X-Frame-Options and X-Content-Type-Options.
C20_SecurityHeadersOnEveryResponse ==
  exchange.kind = "viewer" =>
    {"Strict-Transport-Security", "Content-Security-Policy",
     "X-Frame-Options", "X-Content-Type-Options"} \subseteq exchange.response.headers

C27_ConstructionNeverAborts ==
  \A r \in RunIds :
    /\ stack[r].status # "threw"
    /\ stack[r].status = "running" => ~Throws(stack[r], Program[stack[r].pc])

\* C29: a run that has started executing is never cancelled: it stays in
\* progress until it ends with its own success or failure; only a run that
\* never started is cancelled; and a waiting run waits for a run of its own
\* concurrency group that is executing.
C29_StartedRunNeverCancelled ==
  /\ [](\A r \in RunIds :
          /\ run[r].status = "cancelled" => run[r].step = 0
          /\ run[r].status = "pending" =>
               \E q \in RunIds :
                 /\ q < r
                 /\ run[q].status = "in_progress"
                 /\ Group(run[q].workflow, run[q].ref) = Group(run[r].workflow, run[r].ref))
  /\ [][\A r \in RunIds :
          run[r].status = "in_progress" =>
            /\ run'[r].status \in {"in_progress", "success", "failure"}
            /\ run'[r].step >= run[r].step]_vars

\* C29 witness: a run is past its first step while, in its concurrency
\* group, a later run has been cancelled waiting and a still later one waits.
C29_Witness ==
  \E r1, r2, r3 \in RunIds :
    /\ r1 < r2 /\ r2 < r3
    /\ run[r1].status = "in_progress" /\ run[r1].step > 1
    /\ run[r2].status = "cancelled"
    /\ run[r3].status = "pending"
    /\ Group(run[r1].workflow, run[r1].ref) = Group(run[r2].workflow, run[r2].ref)
    /\ Group(run[r1].workflow, run[r1].ref) = Group(run[r3].workflow, run[r3].ref)

\* C30: in every run the "Deploy with CDK" step, and with it the constructor
\* that declares the content sync of `dist`, starts only after the "Build
\* project" step of that run; a run that failed at "Build project" or before
\* it has started no deployment.
C30_DeployOnlyAfterBuild ==
  \A r \in RunIds :
    /\ (stack[r] # NoStack \/ (run[r].step > 0 /\ Steps[run[r].step] = "Deploy with CDK")) =>
         \E i \in 1..(run[r].step - 1) : Steps[i] = "Build project"
    /\ (/\ run[r].status = "failure"
        /\ \E i \in run[r].step..Len(Steps) : Steps[i] = "Build project") =>
         stack[r] = NoStack

\* C30 witness: one run executes the constructor in its deploy step; another
\* run failed at "Build project" and deployed nothing.
C30_Witness ==
  \E r1, r2 \in RunIds :
    /\ run[r1].status = "in_progress"
    /\ Steps[run[r1].step] = "Deploy with CDK"
    /\ stack[r1].status = "running" /\ stack[r1].pc > 1
    /\ run[r2].status = "failure"
    /\ Steps[run[r2].step] = "Build project"
    /\ stack[r2] = NoStack

\* C22 (as claimed): at every width the text block and the image block of a
\* rendered SectionWithImage have distinct order values; with reverse false
\* or omitted the text is placed first and the image second, with reverse
\* true the image first and the text second.
C22_DistinctOrderForEveryReverse ==
  \A k \in 1..2 :
    renders[k].component = "SectionWithImage" =>
      LET grid == GridOf(renders[k].markup)
          reverse == Prop(renders[k].props, "reverse", FALSE)
      IN \A viewport \in Viewports :
           /\ CssOrder(grid.children[1], viewport) # CssOrder(grid.children[2], viewport)
           /\ PlaceOf(grid, 1, viewport) = (IF reverse THEN 2 ELSE 1)
           /\ PlaceOf(grid, 2, viewport) = (IF reverse THEN 1 ELSE 2)

\* C22 (amended): at the md breakpoint and above the two blocks have distinct
\* order values, the text first and the image second with reverse false or
\* omitted, the image first and the text second with reverse true; below the
\* breakpoint neither block has an order value and the text is placed above
\* the image for every value of reverse.
C22_DistinctOrderFromMd ==
  \A k \in 1..2 :
    renders[k].component = "SectionWithImage" =>
      LET grid == GridOf(renders[k].markup)
          reverse == Prop(renders[k].props, "reverse", FALSE)
      IN /\ Len(grid.children) = 2
         /\ grid.children[2].children[1].tag = "img"
         /\ {CssOrder(grid.children[1], "md"), CssOrder(grid.children[2], "md")} = {1, 2}
         /\ PlaceOf(grid, 1, "md") = (IF reverse THEN 2 ELSE 1)
         /\ PlaceOf(grid, 2, "md") = (IF reverse THEN 1 ELSE 2)
         /\ CssOrder(grid.children[1], "base") = 0
         /\ CssOrder(grid.children[2], "base") = 0
         /\ PlaceOf(grid, 1, "base") = 1
         /\ PlaceOf(grid, 2, "base") = 2

\* C22 witness: a section rendered with reverse true, its image placed first
\* at md, after a section rendered without the reverse prop.
C22_Witness ==
  /\ renders[1].component = "SectionWithImage"
  /\ "reverse" \notin DOMAIN renders[1].props
  /\ PlaceOf(GridOf(renders[1].markup), 1, "md") = 1
  /\ renders[2].component = "SectionWithImage"
  /\ "reverse" \in DOMAIN renders[2].props /\ renders[2].props.reverse
  /\ PlaceOf(GridOf(renders[2].markup), 2, "md") = 1

\* C23: the rendered index page has one hero section, with the title and
\* description of the first entry of the sections list, and after it, inside
\* main, exactly one section per remaining entry, in list order, each with
\* the entry's id as DOM id, its title in the h2, its description in the p,
\* its image source and the layout of its reverse flag.
C23_OneSectionPerEntryInOrder ==
  dom # <<>> =>
    LET page == dom[1]
        main == QuerySelectorAll(page, "main")[1]
        withId == SelectSeq(QuerySelectorAll(main, "section"), HasId)
    IN /\ Len(QuerySelectorAll(page, "main")) = 1
       /\ Len(withId) = Len(sections)
       /\ Attr(withId[1], "id") = "hero"
       /\ OwnText(QuerySelectorAll(withId[1], "h1")[1]) = <<sections[1].title>>
       /\ OwnText(QuerySelectorAll(withId[1], "h2")[1]) = <<sections[1].description>>
       /\ \A i \in 2..Len(sections) :
            LET e == withId[i] IN
              /\ Attr(e, "id") = sections[i].id
              /\ OwnText(QuerySelectorAll(e, "h2")[1]) = <<sections[i].title>>
              /\ OwnText(QuerySelectorAll(e, "p")[1]) = <<sections[i].description>>
              /\ Attr(QuerySelectorAll(e, "img")[1], "src") = sections[i].imageSrc
              /\ PlaceOf(GridOf(e), 1, "md")
                   = (IF Prop(sections[i], "reverse", FALSE) THEN 2 ELSE 1)

\* C23 witness: the index page is committed, with three sections after the
\* hero, the second of them laid out in reverse.
C23_Witness ==
  /\ root.status = "committed"
  /\ dom # <<>>
  /\ Len(SelectSeq(QuerySelectorAll(dom[1], "section"), HasId)) = 4
  /\ \E i \in 2..Len(sections) :
       /\ sections[i].reverse
       /\ PlaceOf(GridOf(SelectSeq(QuerySelectorAll(dom[1], "section"), HasId)[i]), 2, "md") = 1

\* C28: on the rendered index page every fragment link of the navigation menu
\* names the id of exactly one element of the page, which is a section; the
\* menu links are '#knowledge-sharing', '#networking-events' and
\* '#professional-growth'; and no id, 'hero' included, occurs on two elements.
C28_MenuLinksHitOneSection ==
  dom # <<>> =>
    LET page == dom[1]
        all == AllElements(page)
        links == { a \in { QuerySelectorAll(page, "a")[i] :
                             i \in 1..Len(QuerySelectorAll(page, "a")) } :
                     IsFragmentLink(a) }
    IN /\ { Attr(a, "href") : a \in links }
            = { <<"#", "knowledge-sharing">>, <<"#", "networking-events">>,
                <<"#", "professional-growth">> }
       /\ \A a \in links :
            /\ CountId(page, Attr(a, "href")[2]) = 1
            /\ \E i \in 1..Len(all) :
                 all[i].tag = "section" /\ Attr(all[i], "id") = Attr(a, "href")[2]
       /\ CountId(page, "hero") = 1
       /\ \A i, j \in 1..Len(all) :
            (HasId(all[i]) /\ HasId(all[j]) /\ Attr(all[i], "id") = Attr(all[j], "id"))
              => i = j

\* C28 witness: the page is on screen after its mount effects, with the three
\* menu links in its navigation bar and four elements that carry an id.
C28_Witness ==
  /\ root.status = "mounted"
  /\ dom # <<>>
  /\ Cardinality({ i \in 1..Len(QuerySelectorAll(dom[1], "a")) :
                     IsFragmentLink(QuerySelectorAll(dom[1], "a")[i]) }) = 3
  /\ Cardinality({ i \in 1..Len(AllElements(dom[1])) : HasId(AllElements(dom[1])[i]) }) = 4

\* C21: in every run of the app, whatever env its revision gives the homepage
\* stack, the certificate the constructor declares is requested in us-east-1
\* and is the certificate the distribution is declared with; and the
\* certificate stack of revision 3 is placed in us-east-1.
C21_CertificateInUsEast1 ==
  LET s == app.homepage IN
    /\ s.certificate # Undefined => CertificateRegion(s.certificate, s) = "us-east-1"
    /\ s.distribution # Undefined =>
         /\ s.distribution.certificate = s.certificate.id
         /\ CertificateRegion(s.certificate, s) = "us-east-1"
    /\ "HomepageCertStack" \in app.stacks =>
         StackEnv(app.revision, "HomepageCertStack", app.accountSet).region = "us-east-1"

\* C21 witness: the constructor, entered for a stack placed in ap-southeast-2,
\* has declared the distribution with its certificate.
C21_Witness ==
  /\ app.homepage.env.region = "ap-southeast-2"
  /\ app.homepage.distribution # Undefined
  /\ app.homepage.distribution.certificate = "VAITHomeCertificate"

C25_DeletionRemovesBucketAndDistribution ==
  /\ [](cloud.status # "DELETE_FAILED")
  /\ [](cloud.resources["HomepageSiteBucket"] = "DELETE_COMPLETE" => objects = {})
  /\ [](cloud.status = "DELETE_COMPLETE" =>
          /\ ~Remains("HomepageSiteBucket")
          /\ ~Remains("HomepageSiteDistribution")
          /\ objects = {})
  /\ (cloud.status = "DELETE_IN_PROGRESS" ~> cloud.status = "DELETE_COMPLETE")

\* C25 witness: the deletion has completed for a bucket that held the whole
\* build output.
C25_Witness ==
  /\ cloud.status = "DELETE_COMPLETE"
  /\ cloud.emptied = DistFiles
  /\ cloud.resources["HomepageSiteBucket"] = "DELETE_COMPLETE"
  /\ cloud.resources["HomepageSiteDistribution"] = "DELETE_COMPLETE"

====
